---- MODULE Spec2Model ----
(***************************************************************************)
(* Seat claiming against a PostgreSQL store through Prisma                 *)
(* (src/src/not-occ.ts): the optimistic, version-stamped claim             *)
(* reserveSeatOCC / simulateConflict, and the lock-hold demonstration      *)
(* transactionT1 / transactionT2 / validateLockAndVersionChange.           *)
(*                                                                         *)
(* One action per awaited store call.  The store is PostgreSQL at READ     *)
(* COMMITTED: a read sees committed rows only; an UPDATE takes the row's   *)
(* exclusive lock, waits while another transaction holds it, and then      *)
(* evaluates its WHERE against the row as committed at that moment; the    *)
(* lock is released by COMMIT or ROLLBACK.  A statement issued on the      *)
(* plain client runs in its own implicit transaction (execute, then        *)
(* commit).                                                                *)
(***************************************************************************)
EXTENDS Integers, FiniteSets, TLC

\* ---------------------------------------------------------------- bounds
NumSeats == 2      \* seats of the movie in the pool specification
NumClients == 2    \* concurrent callers of reserveSeatOCC in the pool
MaxCalls == 4      \* calls of reserveSeatOCC made in a run of the pool

\* ------------------------------------------------------------- constants
Null == 0          \* SQL NULL / JS null for ids (ids are positive)
NoResult == 0 - 1  \* no updateMany result received yet

USER_EMAIL_T1 == "sorcha@prisma.io"
USER_EMAIL_T2 == "ellen@prisma.io"
Emails == {"alice@prisma.io", "sorcha@prisma.io", "ellen@prisma.io"}
UnknownEmail == "nobody@prisma.io"

\* user.createMany in setupData: autoincrement ids in insertion order
UserTable == [e \in Emails |->
                CASE e = "alice@prisma.io"  -> 1
                  [] e = "sorcha@prisma.io" -> 2
                  [] e = "ellen@prisma.io"  -> 3]

\* the users prisma/seed.ts creates after it deleted all users; their
\* autoincrement ids follow those handed out before
SeedEmails == {"alice@example.com", "bob@example.com", "charlie@example.com"}
SeedUserTable == [e \in SeedEmails |->
                    CASE e = "alice@example.com"   -> 4
                      [] e = "bob@example.com"     -> 5
                      [] e = "charlie@example.com" -> 6]

\* the id of the User row with email e
UserId(e) == IF e \in Emails THEN UserTable[e] ELSE SeedUserTable[e]

Clients == 1..NumClients
T1 == NumClients + 1
T2 == NumClients + 2
MainCalls == {NumClients + 3, NumClients + 4}   \* main's claimSeat(1), claimSeat(2)
Procs == Clients \cup {T1, T2} \cup MainCalls
SimClients == {1, 2}         \* the two reservations of simulateConflict

SeatIds == 1..NumSeats
NoSeat == [id |-> Null, version |-> 0]
NoWrite == [id |-> Null, userId |-> Null, version |-> 0]

VARIABLES
  seat,          \* committed Seat rows: id -> [userId, version]
  lock,          \* id -> set of processes holding the row's exclusive lock
  pending,       \* process -> its uncommitted row write (NoWrite if none)
  pc,            \* process -> position in its function
  email,         \* process -> userEmail argument of the running call
  user,          \* process -> local `user` (its id, Null if not found)
  availableSeat, \* process -> local `availableSeat` snapshot [id, version]
  result,        \* process -> result.count of its updateMany
  outcome,       \* process -> what the finished call reported
  txState,       \* T1/T2 -> state of the Prisma interactive transaction
  calls,         \* number of reserveSeatOCC calls started
  waitedFor,     \* process -> lock holders it had to wait for at its UPDATE
  claims,        \* history: the seat writes committed so far, each with its writer
  seats,         \* ids of the Seat rows that exist
  users,         \* emails of the User rows that exist
  mainPc,        \* position of the driver (simulateConflict / validate...)
  finalSeat      \* the driver's final findUnique({id: 1})

vars == <<seat, lock, pending, pc, email, user, availableSeat, result, outcome,
          txState, calls, waitedFor, claims, seats, users, mainPc, finalSeat>>

locals == <<email, user, availableSeat>>
driver == <<mainPc, finalSeat>>
tables == <<seats, users>>

\* ----------------------------------------------------------------- store

\* findUnique({ where: { email } })
findUnique(e) == IF e \in users THEN UserId(e) ELSE Null

\* (variant) a read phase that forgets the claimedBy filter
AnyRow(row) == TRUE

\* where: { claimedBy: null }
Unclaimed(row) == row.userId = Null

\* the rows findFirst may return: seats of the movie with no owner (committed)
Available == {s \in seats : Unclaimed(seat[s])}

\* (variant) the where of the unversioned claimSeat: { id } only
WhereIdOnly(row, snap) == TRUE

\* where: { id: availableSeat.id, version: availableSeat.version }
WhereMatches(row, snap) == row.version = snap.version

\* (variant) an update that leaves the version as it is
IncrementNone(v) == v

\* version: { increment: 1 }
Increment(v) == v + 1

\* (variant) the condition evaluated against the caller's own snapshot
RowOfOwnSnapshot(p, s) == [userId |-> Null, version |-> availableSeat[p].version]

\* the row an UPDATE of process p evaluates its WHERE against
RowSeenBy(p, s) == seat[s]

\* (variant) an UPDATE that does not wait for the row lock
NeverBlocked(p, s) == FALSE

\* an UPDATE waits while another transaction holds the row lock
IsBlocked(p, s) == lock[s] \ {p} # {}

\* result.count of p's updateMany: the rows its WHERE matches (id is unique)
UpdateCount(p) ==
  LET s == availableSeat[p].id
  IN IF s \in seats /\ WhereMatches(RowSeenBy(p, s), availableSeat[p])
       THEN 1 ELSE 0

\* (variant) an update that writes without taking the row lock
ExecUpdateManyNoLock(p) ==
  LET s == availableSeat[p].id
      n == UpdateCount(p)
  IN /\ result' = [result EXCEPT ![p] = n]
     /\ pending' = [pending EXCEPT ![p] =
          IF n = 1 THEN [id |-> s, userId |-> user[p],
                         version |-> Increment(RowSeenBy(p, s).version)]
          ELSE @]
     /\ UNCHANGED lock

\* updateMany executed by p's (implicit or interactive) transaction
ExecUpdateMany(p) ==
  LET s == availableSeat[p].id
      n == UpdateCount(p)
  IN /\ result' = [result EXCEPT ![p] = n]
     /\ IF n = 1
          THEN /\ pending' = [pending EXCEPT ![p] =
                    [id |-> s, userId |-> user[p],
                     version |-> Increment(RowSeenBy(p, s).version)]]
               /\ lock' = [lock EXCEPT ![s] = @ \cup {p}]
          ELSE UNCHANGED <<pending, lock>>

\* rows after p's transaction commits
CommittedRows(p) ==
  IF pending[p].id = Null THEN seat
  ELSE [seat EXCEPT ![pending[p].id] =
          [userId |-> pending[p].userId, version |-> pending[p].version]]

\* (variant) a rollback that leaves the transaction's write in place
RollbackKeepsWrite(p) == CommittedRows(p)

\* rows after p's transaction rolls back
RolledBackRows(p) == seat

\* (variant) a transaction end that keeps its row locks
KeepLocks(p) == lock

\* the end of p's transaction releases the row locks it holds
ReleaseLocks(p) == [s \in DOMAIN lock |-> lock[s] \ {p}]

\* the record kept of a committed write w of process p
Written(p, w) == [proc |-> p, seat |-> w.id, newVersion |-> w.version,
                  userId |-> w.userId]

\* COMMIT of p's (implicit or interactive) transaction
CommitTx(p) ==
  /\ seat' = CommittedRows(p)
  /\ claims' = IF seat' = seat THEN claims
               ELSE claims \cup {Written(p, pending[p])}
  /\ pending' = [pending EXCEPT ![p] = NoWrite]
  /\ lock' = ReleaseLocks(p)

\* ROLLBACK of p's transaction
RollbackTx(p) ==
  /\ seat' = RolledBackRows(p)
  /\ UNCHANGED claims
  /\ pending' = [pending EXCEPT ![p] = NoWrite]
  /\ lock' = ReleaseLocks(p)

\* ---------------------------------------------------------- reserveSeatOCC

\* caller c starts reserveSeatOCC(e, movieName)
OCC_Call(c, e) ==
  /\ pc[c] = "idle"
  /\ email' = [email EXCEPT ![c] = e]
  /\ calls' = calls + 1
  /\ pc' = [pc EXCEPT ![c] = "findUnique"]
  /\ user' = [user EXCEPT ![c] = Null]
  /\ availableSeat' = [availableSeat EXCEPT ![c] = NoSeat]
  /\ result' = [result EXCEPT ![c] = NoResult]
  /\ outcome' = [outcome EXCEPT ![c] = "none"]
  /\ waitedFor' = [waitedFor EXCEPT ![c] = {}]
  /\ UNCHANGED <<seat, lock, pending, txState, claims, tables, driver>>

\* reserveSeatOCC returns: its locals are gone
Return(c) ==
  /\ email' = [email EXCEPT ![c] = ""]
  /\ user' = [user EXCEPT ![c] = Null]
  /\ availableSeat' = [availableSeat EXCEPT ![c] = NoSeat]
  /\ result' = [result EXCEPT ![c] = NoResult]
  /\ waitedFor' = [waitedFor EXCEPT ![c] = {}]

\* const user = await client.user.findUnique(...); if (!user) return
OCC_findUnique(c) ==
  /\ pc[c] = "findUnique"
  /\ LET u == findUnique(email[c]) IN
       IF u = Null
         THEN /\ pc' = [pc EXCEPT ![c] = "idle"]
              /\ outcome' = [outcome EXCEPT ![c] = "NoUser"]
              /\ Return(c)
         ELSE /\ pc' = [pc EXCEPT ![c] = "findFirst"]
              /\ user' = [user EXCEPT ![c] = u]
              /\ UNCHANGED <<outcome, email, availableSeat, result, waitedFor>>
  /\ UNCHANGED <<seat, lock, pending, txState, calls, claims, tables, driver>>

\* READ PHASE: findFirst of an unclaimed seat; if (!availableSeat) return
OCC_findFirst(c) ==
  /\ pc[c] = "findFirst"
  /\ IF Available = {}
       THEN /\ pc' = [pc EXCEPT ![c] = "idle"]
            /\ outcome' = [outcome EXCEPT ![c] = "NoResourceAvailable"]
            /\ Return(c)
       ELSE /\ \E s \in Available :
                 availableSeat' = [availableSeat EXCEPT ![c] =
                                     [id |-> s, version |-> seat[s].version]]
            /\ pc' = [pc EXCEPT ![c] = "updateMany"]
            /\ UNCHANGED <<outcome, email, user, result, waitedFor>>
  /\ UNCHANGED <<seat, lock, pending, txState, calls, claims, tables, driver>>

\* the UPDATE of p reaches the store: it waits for the row lock or executes
RequestUpdateMany(p, after) ==
  /\ pc[p] \in {"updateMany", "waiting"}
  /\ IF IsBlocked(p, availableSeat[p].id)
       THEN /\ pc[p] = "updateMany"
            /\ pc' = [pc EXCEPT ![p] = "waiting"]
            /\ waitedFor' = [waitedFor EXCEPT ![p] =
                               lock[availableSeat[p].id] \ {p}]
            /\ UNCHANGED <<pending, lock, result>>
       ELSE /\ ExecUpdateMany(p)
            /\ pc' = [pc EXCEPT ![p] = after]
            /\ waitedFor' = [waitedFor EXCEPT ![p] =
                               IF pc[p] = "waiting" THEN @
                               ELSE lock[availableSeat[p].id] \ {p}]

\* WRITE PHASE: client.seat.updateMany with the version condition
OCC_updateMany(c) ==
  /\ RequestUpdateMany(c, "autocommit")
  /\ UNCHANGED <<seat, locals, outcome, txState, calls, claims, tables, driver>>

\* (variant) a call that goes back to its read phase when its update lost
OCC_autocommitRetry(c) ==
  /\ pc[c] = "autocommit"
  /\ CommitTx(c)
  /\ IF result[c] = 0
       THEN /\ pc' = [pc EXCEPT ![c] = "findFirst"]
            /\ result' = [result EXCEPT ![c] = NoResult]
            /\ UNCHANGED <<outcome, locals, waitedFor>>
       ELSE /\ pc' = [pc EXCEPT ![c] = "idle"]
            /\ outcome' = [outcome EXCEPT ![c] = "Claimed"]
            /\ Return(c)
  /\ UNCHANGED <<txState, calls, tables, driver>>

\* the statement's implicit transaction commits and result.count is examined
OCC_autocommit(c) ==
  /\ pc[c] = "autocommit"
  /\ CommitTx(c)
  /\ pc' = [pc EXCEPT ![c] = "idle"]
  /\ outcome' = [outcome EXCEPT ![c] =
                    IF result[c] = 0 THEN "Conflict" ELSE "Claimed"]
  /\ Return(c)
  /\ UNCHANGED <<txState, calls, tables, driver>>

reserveSeatOCC(c) ==
  \/ OCC_findUnique(c)
  \/ OCC_findFirst(c)
  \/ OCC_updateMany(c)
  \/ OCC_autocommit(c)

\* ------------------------------------------------------------ transactionT1

T1_findUnique ==
  /\ pc[T1] = "findUnique"
  /\ user' = [user EXCEPT ![T1] = findUnique(USER_EMAIL_T1)]
  /\ pc' = [pc EXCEPT ![T1] = "findFirst"]
  /\ UNCHANGED <<seat, lock, pending, email, availableSeat, result, outcome,
                 txState, calls, waitedFor, claims, tables, driver>>

\* findFirst; if (!user || !availableSeat) return
T1_findFirst ==
  /\ pc[T1] = "findFirst"
  /\ \E s \in Available \cup {Null} :
       /\ (s = Null) <=> (Available = {})
       /\ availableSeat' = [availableSeat EXCEPT ![T1] =
            IF s = Null THEN NoSeat ELSE [id |-> s, version |-> seat[s].version]]
       /\ IF user[T1] = Null \/ s = Null
            THEN /\ pc' = [pc EXCEPT ![T1] = "done"]
                 /\ outcome' = [outcome EXCEPT ![T1] = "MissingData"]
            ELSE /\ pc' = [pc EXCEPT ![T1] = "begin"]
                 /\ UNCHANGED outcome
  /\ UNCHANGED <<seat, lock, pending, email, user, result, txState, calls,
                 waitedFor, claims, tables, driver>>

\* client.$transaction(async (tx) => ..., { ReadCommitted, timeout: 7000 })
T1_begin ==
  /\ pc[T1] = "begin"
  /\ txState' = [txState EXCEPT ![T1] = "open"]
  /\ pc' = [pc EXCEPT ![T1] = "updateMany"]
  /\ UNCHANGED <<seat, lock, pending, locals, result, outcome, calls,
                 waitedFor, claims, tables, driver>>

\* tx.seat.updateMany; count 0 throws, which rolls the transaction back
T1_updateMany ==
  /\ txState[T1] = "open"
  /\ RequestUpdateMany(T1, IF UpdateCount(T1) = 0 THEN "done" ELSE "queryLocks")
  /\ IF ~IsBlocked(T1, availableSeat[T1].id) /\ UpdateCount(T1) = 0
       THEN /\ txState' = [txState EXCEPT ![T1] = "rolledback"]
            /\ outcome' = [outcome EXCEPT ![T1] = "Conflict"]
       ELSE UNCHANGED <<txState, outcome>>
  /\ UNCHANGED <<seat, locals, calls, claims, tables, driver>>

\* tx.$queryRawUnsafe(lockCheckQuery): reads pg_locks, logged only
T1_queryLocks ==
  /\ pc[T1] = "queryLocks"
  /\ txState[T1] = "open"
  /\ pc' = [pc EXCEPT ![T1] = "sleep"]
  /\ UNCHANGED <<seat, lock, pending, locals, result, outcome, txState, calls,
                 waitedFor, claims, tables, driver>>

\* tx.$executeRaw`SELECT pg_sleep(6);`: the transaction is held open
T1_sleep ==
  /\ pc[T1] = "sleep"
  /\ txState[T1] = "open"
  /\ pc' = [pc EXCEPT ![T1] = "commit"]
  /\ UNCHANGED <<seat, lock, pending, locals, result, outcome, txState, calls,
                 waitedFor, claims, tables, driver>>

\* the callback returned: COMMIT
T1_commit ==
  /\ pc[T1] = "commit"
  /\ txState[T1] = "open"
  /\ CommitTx(T1)
  /\ txState' = [txState EXCEPT ![T1] = "committed"]
  /\ outcome' = [outcome EXCEPT ![T1] = "Claimed"]
  /\ pc' = [pc EXCEPT ![T1] = "done"]
  /\ UNCHANGED <<locals, result, calls, waitedFor, tables, driver>>

\* the 7000 ms elapse before the COMMIT, which can happen where the callback
\* is suspended for seconds (on the row lock, in pg_sleep(6)): Prisma rolls
\* the transaction back and $transaction rejects
T1_timeout ==
  /\ txState[T1] = "open"
  /\ pc[T1] \in {"waiting", "sleep", "commit"}
  /\ RollbackTx(T1)
  /\ txState' = [txState EXCEPT ![T1] = "expired"]
  /\ outcome' = [outcome EXCEPT ![T1] = "TimedOut"]
  /\ pc' = [pc EXCEPT ![T1] = "done"]
  /\ UNCHANGED <<locals, result, calls, waitedFor, tables, driver>>

transactionT1 ==
  \/ T1_findUnique
  \/ T1_findFirst
  \/ T1_begin
  \/ T1_updateMany
  \/ T1_queryLocks
  \/ T1_sleep
  \/ T1_commit
  \/ T1_timeout

\* ------------------------------------------------------------ transactionT2

T2_findUnique ==
  /\ pc[T2] = "findUnique"
  /\ user' = [user EXCEPT ![T2] = findUnique(USER_EMAIL_T2)]
  /\ pc' = [pc EXCEPT ![T2] = "findFirst"]
  /\ UNCHANGED <<seat, lock, pending, email, availableSeat, result, outcome,
                 txState, calls, waitedFor, claims, tables, driver>>

T2_findFirst ==
  /\ pc[T2] = "findFirst"
  /\ \E s \in Available \cup {Null} :
       /\ (s = Null) <=> (Available = {})
       /\ availableSeat' = [availableSeat EXCEPT ![T2] =
            IF s = Null THEN NoSeat ELSE [id |-> s, version |-> seat[s].version]]
       /\ IF user[T2] = Null \/ s = Null
            THEN /\ pc' = [pc EXCEPT ![T2] = "done"]
                 /\ outcome' = [outcome EXCEPT ![T2] = "MissingData"]
            ELSE /\ pc' = [pc EXCEPT ![T2] = "begin"]
                 /\ UNCHANGED outcome
  /\ UNCHANGED <<seat, lock, pending, email, user, result, txState, calls,
                 waitedFor, claims, tables, driver>>

\* client.$transaction(async (tx) => ...): default options, timeout 5000 ms
T2_begin ==
  /\ pc[T2] = "begin"
  /\ txState' = [txState EXCEPT ![T2] = "open"]
  /\ pc' = [pc EXCEPT ![T2] = "queryLocks"]
  /\ UNCHANGED <<seat, lock, pending, locals, result, outcome, calls,
                 waitedFor, claims, tables, driver>>

\* client.$queryRawUnsafe(lockCheckQuery), on the plain client
T2_queryLocks ==
  /\ pc[T2] = "queryLocks"
  /\ pc' = [pc EXCEPT ![T2] = "updateMany"]
  /\ UNCHANGED <<seat, lock, pending, locals, result, outcome, txState, calls,
                 waitedFor, claims, tables, driver>>

\* client.seat.updateMany: issued on the plain client, not on tx
T2_updateMany ==
  /\ RequestUpdateMany(T2, "autocommit")
  /\ UNCHANGED <<seat, locals, outcome, txState, calls, claims, tables, driver>>

\* the statement's implicit transaction commits; count 0 throws out of the
\* callback (the rollback of tx undoes nothing), count 1 logs the success
T2_autocommit ==
  /\ pc[T2] = "autocommit"
  /\ CommitTx(T2)
  /\ IF result[T2] = 0
       THEN /\ outcome' = [outcome EXCEPT ![T2] = "ConflictAfterWait"]
            /\ txState' = [txState EXCEPT ![T2] =
                             IF @ = "open" THEN "rolledback" ELSE @]
            /\ pc' = [pc EXCEPT ![T2] = "done"]
       ELSE /\ pc' = [pc EXCEPT ![T2] = "commit"]
            /\ UNCHANGED <<outcome, txState>>
  /\ UNCHANGED <<locals, result, calls, waitedFor, tables, driver>>

\* the callback returned: COMMIT of tx, which fails if tx has expired
T2_commit ==
  /\ pc[T2] = "commit"
  /\ IF txState[T2] = "open"
       THEN /\ txState' = [txState EXCEPT ![T2] = "committed"]
            /\ outcome' = [outcome EXCEPT ![T2] = "Claimed"]
       ELSE /\ outcome' = [outcome EXCEPT ![T2] = "CommitFailed"]
            /\ UNCHANGED txState
  /\ pc' = [pc EXCEPT ![T2] = "done"]
  /\ UNCHANGED <<seat, lock, pending, locals, result, calls, waitedFor,
                 claims, tables, driver>>

\* the 5000 ms elapse while the callback is suspended on the row lock: tx
\* (which holds no write) is rolled back by Prisma; the callback goes on, it
\* never uses tx before it returns
T2_timeout ==
  /\ txState[T2] = "open"
  /\ pc[T2] = "waiting"
  /\ txState' = [txState EXCEPT ![T2] = "expired"]
  /\ UNCHANGED <<seat, lock, pending, pc, locals, result, outcome, calls,
                 waitedFor, claims, tables, driver>>

transactionT2 ==
  \/ T2_findUnique
  \/ T2_findFirst
  \/ T2_begin
  \/ T2_queryLocks
  \/ T2_updateMany
  \/ T2_autocommit
  \/ T2_commit
  \/ T2_timeout

\* ---------------------------------------------------------------- setupData

SetupSeat == [userId |-> Null, version |-> 0]

SetupSteps == {"seat.deleteMany", "movie.deleteMany", "user.deleteMany",
               "movie.create", "user.createMany", "seat.create"}

setupData ==
  /\ mainPc \in SetupSteps
  /\ CASE mainPc = "seat.deleteMany" ->
            /\ seats' = {}
            /\ seat' = [s \in SeatIds |-> SetupSeat]
            /\ mainPc' = "movie.deleteMany"
            /\ UNCHANGED users
       [] mainPc = "movie.deleteMany" ->
            /\ mainPc' = "user.deleteMany"
            /\ UNCHANGED <<seats, seat, users>>
       [] mainPc = "user.deleteMany" ->
            /\ users' = {}
            /\ mainPc' = "movie.create"
            /\ UNCHANGED <<seats, seat>>
       [] mainPc = "movie.create" ->
            /\ mainPc' = "user.createMany"
            /\ UNCHANGED <<seats, seat, users>>
       [] mainPc = "user.createMany" ->
            /\ users' = Emails
            /\ mainPc' = "seat.create"
            /\ UNCHANGED <<seats, seat>>
       [] mainPc = "seat.create" ->
            /\ seats' = {1}
            /\ seat' = [seat EXCEPT ![1] = SetupSeat]
            /\ mainPc' = "start"
            /\ UNCHANGED users
  /\ UNCHANGED <<lock, pending, pc, locals, result, outcome, txState, calls,
                 waitedFor, claims, finalSeat>>

\* -------------------------------------------------------------------- Init

\* rows a store may hold when a program starts: left by an earlier run of
\* one of the claim programs
PriorRows == {[userId |-> Null, version |-> 0]} \cup
             {[userId |-> UserTable[e], version |-> v] : e \in Emails, v \in 0..1}

InitProcs ==
  /\ lock = [s \in SeatIds |-> {}]
  /\ pending = [p \in Procs |-> NoWrite]
  /\ pc = [p \in Procs |-> IF p \in Clients THEN "idle" ELSE "notStarted"]
  /\ email = [p \in Procs |-> ""]
  /\ user = [p \in Procs |-> Null]
  /\ availableSeat = [p \in Procs |-> NoSeat]
  /\ result = [p \in Procs |-> NoResult]
  /\ outcome = [p \in Procs |-> "none"]
  /\ txState = [p \in {T1, T2} |-> "none"]
  /\ calls = 0
  /\ waitedFor = [p \in Procs |-> {}]
  /\ claims = {}
  /\ finalSeat = [userId |-> Null, version |-> NoResult]

\* a store as an earlier run left it (or empty), before setupData
InitPrior ==
  /\ InitProcs
  /\ \/ seats = {} /\ users = {} /\ seat = [s \in SeatIds |-> SetupSeat]
     \/ /\ users = Emails
        /\ seats \in (SUBSET SeatIds) \ {{}}
        /\ seat \in [SeatIds -> PriorRows]
        /\ \A s \in SeatIds \ seats : seat[s] = SetupSeat
  /\ mainPc = "seat.deleteMany"

\* ---------------------------------------------------------- simulateConflict

SimEmail(c) == IF c = 1 THEN "sorcha@prisma.io" ELSE "ellen@prisma.io"

\* const reservations = [reserveSeatOCC(sorcha), reserveSeatOCC(ellen)]
simulateConflict_start ==
  /\ mainPc = "start"
  /\ pc' = [p \in Procs |-> IF p \in SimClients THEN "findUnique" ELSE pc[p]]
  /\ email' = [p \in Procs |-> IF p \in SimClients THEN SimEmail(p) ELSE email[p]]
  /\ calls' = Cardinality(SimClients)
  /\ mainPc' = "awaitAll"
  /\ UNCHANGED <<seat, lock, pending, user, availableSeat, result, outcome,
                 txState, waitedFor, claims, tables, finalSeat>>

\* await Promise.all(reservations); finalSeat = findUnique({ id: 1 })
simulateConflict_final ==
  /\ mainPc = "awaitAll"
  /\ \A c \in SimClients : pc[c] = "idle"
  /\ finalSeat' = seat[1]
  /\ mainPc' = "done"
  /\ UNCHANGED <<seat, lock, pending, pc, locals, result, outcome, txState,
                 calls, waitedFor, claims, tables>>

simulateConflict ==
  \/ setupData
  \/ simulateConflict_start
  \/ simulateConflict_final

NextOCC ==
  \/ simulateConflict
  \/ \E c \in SimClients : reserveSeatOCC(c)

SpecOCC == InitPrior /\ [][NextOCC]_vars

\* ----------------------------------------------- validateLockAndVersionChange

\* const t1Promise = transactionT1()
validate_startT1 ==
  /\ mainPc = "start"
  /\ pc' = [pc EXCEPT ![T1] = "findUnique"]
  /\ mainPc' = "delay"
  /\ UNCHANGED <<seat, lock, pending, locals, result, outcome, txState, calls,
                 waitedFor, claims, tables, finalSeat>>

\* the 500 ms timer fires; const t2Promise = transactionT2()
validate_startT2 ==
  /\ mainPc = "delay"
  /\ pc' = [pc EXCEPT ![T2] = "findUnique"]
  /\ mainPc' = "awaitAll"
  /\ UNCHANGED <<seat, lock, pending, locals, result, outcome, txState, calls,
                 waitedFor, claims, tables, finalSeat>>

\* await Promise.all([t1Promise, t2Promise]); finalSeat = findUnique({ id: 1 })
validate_final ==
  /\ mainPc = "awaitAll"
  /\ pc[T1] = "done" /\ pc[T2] = "done"
  /\ finalSeat' = seat[1]
  /\ mainPc' = "done"
  /\ UNCHANGED <<seat, lock, pending, pc, locals, result, outcome, txState,
                 calls, waitedFor, claims, tables>>

validateLockAndVersionChange ==
  \/ setupData
  \/ validate_startT1
  \/ validate_startT2
  \/ validate_final

NextLock ==
  \/ validateLockAndVersionChange
  \/ transactionT1
  \/ transactionT2

SpecLock == InitPrior /\ [][NextLock]_vars

\* the same under fair scheduling: the event loop runs every continuation
\* that is ready and the store executes every statement it can execute
SpecLockFair ==
  /\ SpecLock
  /\ WF_vars(setupData)
  /\ WF_vars(validateLockAndVersionChange)
  /\ WF_vars(transactionT1)
  /\ WF_vars(transactionT2)

\* ------------------------------------------------------------------- pool
\* NumSeats seats of the movie and NumClients concurrent callers of
\* reserveSeatOCC, calling MaxCalls times in all, each under its own email
\* or one that is not registered

ClientEmail(c) == CASE c % 3 = 1 -> "sorcha@prisma.io"
                    [] c % 3 = 2 -> "ellen@prisma.io"
                    [] c % 3 = 0 -> "alice@prisma.io"

InitPool ==
  /\ InitProcs
  /\ seats = SeatIds
  /\ users = Emails
  /\ seat = [s \in SeatIds |-> SetupSeat]
  /\ mainPc = "pool"

NextPool ==
  \E c \in Clients :
     \/ /\ calls < MaxCalls
        /\ \E e \in {ClientEmail(c), UnknownEmail} : OCC_Call(c, e)
     \/ reserveSeatOCC(c)

SpecPool == InitPool /\ [][NextPool]_vars

\* ------------------------------------------------------------------ mixed
\* the store as setupData leaves it, claimed at once by the two reservations
\* of simulateConflict and by transactionT1 and transactionT2, each started
\* at any moment

Init ==
  /\ InitProcs
  /\ seats = {1}
  /\ users = Emails
  /\ seat = [s \in SeatIds |-> SetupSeat]
  /\ mainPc = "mixed"

Start(p) ==
  /\ pc[p] = "notStarted"
  /\ pc' = [pc EXCEPT ![p] = "findUnique"]
  /\ UNCHANGED <<seat, lock, pending, locals, result, outcome, txState, calls,
                 waitedFor, claims, tables, driver>>

Next ==
  \/ \E c \in SimClients :
        \/ outcome[c] = "none" /\ OCC_Call(c, SimEmail(c))
        \/ reserveSeatOCC(c)
  \/ \E p \in {T1, T2} : Start(p)
  \/ transactionT1
  \/ transactionT2

Spec == Init /\ [][Next]_vars

\* the same under fair scheduling: the event loop runs every continuation
\* that is ready and the store executes every statement it can execute
SpecFair ==
  /\ Spec
  /\ \A c \in SimClients : WF_vars(reserveSeatOCC(c))
  /\ WF_vars(transactionT1)
  /\ WF_vars(transactionT2)

\* --------------------------------------------------------------- claimSeat
\* the unversioned program: main awaits claimSeat(1) and then claimSeat(2)

\* the userId argument of main's call p
UserIdOf(p) == p - (NumClients + 2)

\* main calls claimSeat(userId): the call runs up to its first await
claimSeat_Call(p) ==
  /\ pc[p] = "notStarted"
  /\ pc' = [pc EXCEPT ![p] = "findFirst"]
  /\ user' = [user EXCEPT ![p] = UserIdOf(p)]
  /\ UNCHANGED <<email, availableSeat>>

\* prisma.seat.findFirst({ claimedBy: null }); if (!availableSeat) throw
claimSeat_findFirst(p) ==
  /\ pc[p] = "findFirst"
  /\ IF Available = {}
       THEN /\ pc' = [pc EXCEPT ![p] = "rejected"]
            /\ outcome' = [outcome EXCEPT ![p] = "NoResourceAvailable"]
            /\ UNCHANGED availableSeat
       ELSE /\ \E s \in Available :
                 availableSeat' = [availableSeat EXCEPT ![p] =
                                     [id |-> s, version |-> seat[s].version]]
            /\ pc' = [pc EXCEPT ![p] = "update"]
            /\ UNCHANGED outcome
  /\ UNCHANGED <<seat, lock, pending, email, user, result, txState, calls,
                 waitedFor, claims, tables, driver>>

\* prisma.seat.update({ data: { claimedBy: connect }, where: { id } }): the
\* statement waits for the row lock, then writes the owner of the row with
\* that id, whatever its owner and version are
claimSeat_update(p) ==
  /\ pc[p] \in {"update", "waiting"}
  /\ IF IsBlocked(p, availableSeat[p].id)
       THEN /\ pc[p] = "update"
            /\ pc' = [pc EXCEPT ![p] = "waiting"]
            /\ waitedFor' = [waitedFor EXCEPT ![p] =
                               lock[availableSeat[p].id] \ {p}]
            /\ UNCHANGED <<pending, lock, result>>
       ELSE /\ pending' = [pending EXCEPT ![p] =
                 [id |-> availableSeat[p].id, userId |-> user[p],
                  version |-> seat[availableSeat[p].id].version]]
            /\ lock' = [lock EXCEPT ![availableSeat[p].id] = @ \cup {p}]
            /\ result' = [result EXCEPT ![p] = 1]
            /\ pc' = [pc EXCEPT ![p] = "autocommit"]
            /\ UNCHANGED waitedFor
  /\ UNCHANGED <<seat, locals, outcome, txState, calls, claims, tables, driver>>

\* the statement's implicit transaction commits; console.log(Successfully
\* claimed ...) and the call returns
claimSeat_autocommit(p) ==
  /\ pc[p] = "autocommit"
  /\ CommitTx(p)
  /\ pc' = [pc EXCEPT ![p] = "done"]
  /\ outcome' = [outcome EXCEPT ![p] = "Claimed"]
  /\ UNCHANGED <<locals, result, txState, calls, waitedFor, tables, driver>>

claimSeat(p) ==
  \/ claimSeat_findFirst(p)
  \/ claimSeat_update(p)
  \/ claimSeat_autocommit(p)

\* await claimSeat(1)
main_claimSeat1 ==
  /\ mainPc = "main"
  /\ claimSeat_Call(NumClients + 3)
  /\ mainPc' = "claimSeat(1)"
  /\ UNCHANGED <<seat, lock, pending, result, outcome, txState, calls,
                 waitedFor, claims, tables, finalSeat>>

\* claimSeat(1) returned; await claimSeat(2)
main_claimSeat2 ==
  /\ mainPc = "claimSeat(1)"
  /\ pc[NumClients + 3] = "done"
  /\ claimSeat_Call(NumClients + 4)
  /\ mainPc' = "claimSeat(2)"
  /\ UNCHANGED <<seat, lock, pending, result, outcome, txState, calls,
                 waitedFor, claims, tables, finalSeat>>

\* main().then: both calls returned, prisma.$disconnect()
main_then ==
  /\ mainPc = "claimSeat(2)"
  /\ pc[NumClients + 4] = "done"
  /\ mainPc' = "disconnected"
  /\ UNCHANGED <<seat, lock, pending, pc, locals, result, outcome, txState,
                 calls, waitedFor, claims, tables, finalSeat>>

\* main().catch: the awaited call rejected, so main rejected:
\* console.error, prisma.$disconnect(), process.exit(1)
main_catch ==
  /\ mainPc \in {"claimSeat(1)", "claimSeat(2)"}
  /\ \E p \in MainCalls : pc[p] = "rejected"
  /\ mainPc' = "exit(1)"
  /\ UNCHANGED <<seat, lock, pending, pc, locals, result, outcome, txState,
                 calls, waitedFor, claims, tables, finalSeat>>

main ==
  \/ main_claimSeat1
  \/ main_claimSeat2
  \/ main_then
  \/ main_catch

\* the movie's seats as earlier runs of the claim programs left them
InitMain ==
  /\ InitProcs
  /\ seats = SeatIds
  /\ users = Emails
  /\ seat \in [SeatIds -> PriorRows]
  /\ mainPc = "main"

NextMain ==
  \/ main
  \/ \E p \in MainCalls : claimSeat(p)

SpecMain == InitMain /\ [][NextMain]_vars

\* claimSeat(1) and claimSeat(2) called concurrently (two runs of the
\* program against the same store), each started at any moment
claimSeat_Start(p) ==
  /\ claimSeat_Call(p)
  /\ UNCHANGED <<seat, lock, pending, result, outcome, txState, calls,
                 waitedFor, claims, tables, driver>>

InitClaim ==
  /\ InitProcs
  /\ seats = SeatIds
  /\ users = Emails
  /\ seat \in [SeatIds -> PriorRows]
  /\ mainPc = "concurrent"

NextClaim ==
  \E p \in MainCalls :
     \/ claimSeat_Start(p)
     \/ claimSeat(p)

SpecClaim == InitClaim /\ [][NextClaim]_vars

\* -------------------------------------------------------------------- seed
\* prisma/seed.ts run on a store that holds claimed seats, followed by
\* reservations made under the users it created

\* (variant) a foreign key without a delete action on the seat's side
OnDeleteNoAction(row) == row

\* Seat_userId_fkey ... ON DELETE SET NULL: what deleting its owner does to
\* a seat row
OnDeleteSetNull(row) == [userId |-> Null, version |-> row.version]

\* await prisma.user.deleteMany({})
seed_deleteMany ==
  /\ mainPc = "seed"
  /\ users' = {}
  /\ seat' = [s \in SeatIds |->
                IF s \in seats /\ seat[s].userId # Null
                  THEN OnDeleteSetNull(seat[s]) ELSE seat[s]]
  /\ mainPc' = "seed.create"
  /\ UNCHANGED <<seats, lock, pending, pc, locals, result, outcome, txState,
                 calls, waitedFor, claims, finalSeat>>

\* prisma.$transaction: tx.user.create x 3, committed together
seed_createUsers ==
  /\ mainPc = "seed.create"
  /\ users' = SeedEmails
  /\ mainPc' = "seeded"
  /\ UNCHANGED <<seat, seats, lock, pending, pc, locals, result, outcome,
                 txState, calls, waitedFor, claims, finalSeat>>

seed ==
  \/ seed_deleteMany
  \/ seed_createUsers

\* the email caller c reserves under once the store is seeded
SeedClientEmail(c) == CASE c % 3 = 1 -> "alice@example.com"
                        [] c % 3 = 2 -> "bob@example.com"
                        [] OTHER     -> "charlie@example.com"

InitSeed ==
  /\ InitProcs
  /\ seats = SeatIds
  /\ users = Emails
  /\ seat \in [SeatIds -> PriorRows]
  /\ mainPc = "seed"

NextSeed ==
  \/ seed
  \/ \E c \in Clients :
        \/ /\ mainPc = "seeded"
           /\ calls < MaxCalls
           /\ OCC_Call(c, SeedClientEmail(c))
        \/ reserveSeatOCC(c)

SpecSeed == InitSeed /\ [][NextSeed]_vars

\* ------------------------------------------------------------ store errors
\* the pool with a store that may fail: any store call of reserveSeatOCC may
\* throw an infrastructure error (connection lost, server error) instead of
\* completing

\* findUnique or findFirst throws: both are awaited outside the try block, so
\* the error leaves reserveSeatOCC and the call rejects
OCC_readError(c) ==
  /\ pc[c] \in {"findUnique", "findFirst"}
  /\ pc' = [pc EXCEPT ![c] = "rejected"]
  /\ outcome' = [outcome EXCEPT ![c] = "StoreError"]
  /\ UNCHANGED <<seat, lock, pending, locals, result, txState, calls,
                 waitedFor, claims, tables, driver>>

\* updateMany throws inside the try block: the catch logs the error as a
\* serious one (its message lacks "already booked") and the call returns
OCC_updateError(c) ==
  /\ pc[c] \in {"updateMany", "waiting"}
  /\ pc' = [pc EXCEPT ![c] = "idle"]
  /\ outcome' = [outcome EXCEPT ![c] = "StoreError"]
  /\ Return(c)
  /\ UNCHANGED <<seat, lock, pending, txState, calls, claims, tables, driver>>

reserveSeatOCC_storeError(c) ==
  \/ OCC_readError(c)
  \/ OCC_updateError(c)

NextFaulty ==
  \/ NextPool
  \/ \E c \in Clients : reserveSeatOCC_storeError(c)

SpecFaulty == InitPool /\ [][NextFaulty]_vars

\* ================================================================= claims

\* the callers that have observed updateMany count = 1 for seat s: those
\* that reported the claim and those whose statement has just returned 1
Winners(s) ==
  {r.proc : r \in {x \in claims : x.seat = s /\ x.proc \in Clients}} \cup
  {c \in Clients : pc[c] = "autocommit" /\ result[c] = 1
                   /\ availableSeat[c].id = s}

\* C1: of all the reserveSeatOCC calls that target one seat, whatever the
\* interleaving of their reads and conditional updates, at most one observes
\* success, and the seat is reported claimed at most once.
C1_MutualExclusion ==
  \A s \in SeatIds :
     /\ Cardinality(Winners(s)) <= 1
     /\ Cardinality({r \in claims : r.seat = s}) <= 1

\* two calls hold a snapshot of the same seat; one has claimed it and the
\* other's conditional update has just returned count 0
C1_Witness ==
  \E a, b \in Clients :
     /\ a # b
     /\ outcome[a] = "Claimed"
     /\ pc[b] = "autocommit" /\ result[b] = 0
     /\ \E r \in claims : r.proc = a /\ r.seat = availableSeat[b].id

\* process p's conditional update is executed by the store in this step
UpdateExecutes(p) == result[p] = NoResult /\ result'[p] # NoResult

\* what a caller reports when its conditional update lost
ConflictOutcomes == {"Conflict", "ConflictAfterWait"}

\* C2: when the seat of p's snapshot has been claimed by another requester
\* before p's conditional update is executed (a stale read), the update
\* affects no row and writes nothing, p reports Conflict (reserveSeatOCC,
\* transactionT1) or ConflictAfterWait (transactionT2), never a claim, and
\* the owner of a claimed seat is never replaced.
C2_NoSilentOverwrite ==
  [][ /\ \A p \in Procs :
           /\ ( /\ UpdateExecutes(p)
                /\ seat[availableSeat[p].id].userId # Null )
              => /\ result'[p] = 0
                 /\ pending'[p] = NoWrite
                 /\ seat' = seat
           /\ ( /\ result[p] = 0 \/ result'[p] = 0
                /\ outcome'[p] # outcome[p] )
              => /\ outcome'[p] \in ConflictOutcomes
                 /\ {r \in claims' : r.proc = p} = {}
      /\ \A s \in SeatIds :
           seat[s].userId # Null => seat'[s] = seat[s]
    ]_vars

\* transactionT1 has claimed the seat; transactionT2 and a reservation, both
\* holding a snapshot read before that, have lost: one reported
\* ConflictAfterWait, the other's update has just returned count 0
C2_Witness ==
  /\ outcome[T1] = "Claimed"
  /\ outcome[T2] = "ConflictAfterWait"
  /\ \E c \in SimClients :
        /\ pc[c] = "autocommit" /\ result[c] = 0
        /\ seat[availableSeat[c].id].userId = UserTable[USER_EMAIL_T1]

\* C3: every step that changes a seat row is a successful claim that takes
\* its version from v to exactly v + 1 and sets its owner; no step lowers a
\* version, skips one, or changes an owner at an unchanged version; and the
\* new version a claimer reports is the stored one.
C3_VersionMonotonicity ==
  [][ /\ \A s \in SeatIds :
           \/ seat'[s] = seat[s]
           \/ /\ seat'[s].version = seat[s].version + 1
              /\ seat'[s].userId # Null
      /\ \A r \in claims' \ claims :
           /\ seat[r.seat].version + 1 = r.newVersion
           /\ availableSeat[r.proc].version + 1 = r.newVersion
           /\ seat'[r.seat] = [userId |-> r.userId, version |-> r.newVersion]
    ]_vars

\* a claim has been committed and reported: the seat went from version 0 to 1
C3_Witness ==
  \E r \in claims : seat[r.seat] = [userId |-> r.userId, version |-> 1]

\* simulateConflict has finished with w the claimer, the seat stored at
\* version 1 under w's user, and the other reservation ended with one of
\* the outcomes in losers
RaceEnded(losers) ==
  \E w \in SimClients : \E l \in SimClients \ {w} :
     /\ outcome[w] = "Claimed"
     /\ outcome[l] \in losers
     /\ claims = {[proc |-> w, seat |-> 1, newVersion |-> 1,
                   userId |-> UserTable[SimEmail(w)]]}
     /\ finalSeat = [userId |-> UserTable[SimEmail(w)], version |-> 1]

T2BehindT1 == waitedFor[T2] = {T1}

\* C5: in validateLockAndVersionChange, when transactionT2's conditional
\* update is requested while transactionT1 holds its transaction open on the
\* seat, the update does not complete while that transaction is open; once
\* transactionT1 has committed, transactionT2 observes zero rows affected and
\* ends with ConflictAfterWait, and the final read shows version 1 and
\* transactionT1's user as owner.
C5_PessimisticRace ==
  T2BehindT1 =>
    /\ txState[T1] = "open" => /\ result[T2] = NoResult
                               /\ pc[T2] = "waiting"
    /\ (txState[T1] = "committed" /\ result[T2] # NoResult) => result[T2] = 0
    /\ (txState[T1] = "committed" /\ pc[T2] = "done") =>
          outcome[T2] = "ConflictAfterWait"
    /\ (txState[T1] = "committed" /\ mainPc = "done") =>
          finalSeat = [userId |-> UserTable[USER_EMAIL_T1], version |-> 1]

\* the demonstrated run: T2 waited behind T1, T1 committed, T2 ended with
\* ConflictAfterWait and the final read was made
C5_Witness ==
  /\ T2BehindT1
  /\ outcome[T1] = "Claimed"
  /\ outcome[T2] = "ConflictAfterWait"
  /\ mainPc = "done"
  /\ finalSeat = [userId |-> UserTable[USER_EMAIL_T1], version |-> 1]

\* the ways a claim attempt ends without claiming: the read found no seat,
\* the conditional update lost, or the transaction around it was rolled back
\* (transactionT1 timed out; transactionT2's transaction had expired when
\* its callback returned, so that its commit was refused)
Unsuccessful == {"NoResourceAvailable", "Conflict", "ConflictAfterWait",
                 "TimedOut", "CommitFailed"}

\* the seat writes of process p that were committed
PersistedBy(p) == {r \in claims : r.proc = p}

\* C6: an attempt that ended with NoResourceAvailable, Conflict,
\* ConflictAfterWait or a rolled-back transaction has committed no write to
\* any seat row.
C6_NoMutationOnFailure ==
  \A p \in Procs : outcome[p] \in Unsuccessful => PersistedBy(p) = {}

\* C6 for the attempts whose own write is inside what is rolled back
\* (reserveSeatOCC and transactionT1), and for transactionT2's conflict
C6_ExceptT2Commit ==
  \A p \in Procs :
     outcome[p] \in Unsuccessful \ {"CommitFailed"} => PersistedBy(p) = {}

\* every seat of the movie has an owner
AllClaimed == \A s \in seats : seat[s].userId # Null

\* the read phase of caller c runs in this step
ReadPhase(c) == pc[c] = "findFirst" /\ pc'[c] # "findFirst"

\* C7: once every seat of the movie has an owner this stays so, and the read
\* phase of every later reserveSeatOCC call, whoever makes it and however
\* often, ends the call with NoResourceAvailable without reaching the write
\* phase: no row, no pending write and no lock changes.
C7_ExhaustionStability ==
  [][ AllClaimed =>
        /\ AllClaimed'
        /\ \A c \in Clients :
              ReadPhase(c) =>
                 /\ outcome'[c] = "NoResourceAvailable"
                 /\ pc'[c] = "idle"
                 /\ result'[c] = NoResult
                 /\ <<seat, pending, lock, claims>>' =
                      <<seat, pending, lock, claims>> ]_vars

\* every seat is claimed and a caller that holds a seat asked again and was
\* told NoResourceAvailable, after more calls than there are seats
C7_Witness ==
  /\ AllClaimed
  /\ calls > NumSeats
  /\ \E c \in Clients :
        /\ outcome[c] = "NoResourceAvailable"
        /\ \E r \in claims : r.proc = c

\* the two transactions of the lock demonstration
LockHolders == {T1, T2}

\* b's update was requested while a alone held the row lock
Behind(b, a) == waitedFor[b] = {a}

\* a's transaction is over: it holds no lock and no uncommitted write
Ended(a) ==
  /\ pending[a] = NoWrite
  /\ \A s \in SeatIds : a \notin lock[s]

\* a's transaction committed its write
Committed(a) == PersistedBy(a) # {}

\* C8: when a transaction A held the row lock at the moment B's conditional
\* update was requested, B's update is executed only after A has ended, on
\* the committed row and never on A's uncommitted write: it affects zero
\* rows when A committed and one row when A was rolled back.
C8_LockOrdering ==
  \A a \in LockHolders : \A b \in LockHolders \ {a} :
     (Behind(b, a) /\ result[b] # NoResult) =>
        /\ Ended(a)
        /\ result[b] = IF Committed(a) THEN 0 ELSE 1

\* transactionT2 waited behind transactionT1, which timed out and was rolled
\* back, and transactionT2's update then affected one row
C8_Witness ==
  /\ Behind(T2, T1)
  /\ txState[T1] = "expired"
  /\ outcome[T1] = "TimedOut"
  /\ result[T2] = 1

\* the seat of p's snapshot
SeatOf(p) == availableSeat[p].id

\* p's update affected a row and the transaction it ran in is still open
HoldsWrite(p) ==
  /\ result[p] = 1
  /\ \/ p = T1 /\ pc[p] \in {"queryLocks", "sleep", "commit"}
     \/ p # T1 /\ pc[p] = "autocommit"

\* C9: at most one requester holds the exclusive lock of a seat row at any
\* time; a requester holds it from its successful conditional update until
\* the transaction of that update commits or rolls back, which for
\* transactionT1 includes the lock query, the pg_sleep and the wait for the
\* commit, and holds none otherwise.
C9_LockExclusivity ==
  /\ \A s \in SeatIds : Cardinality(lock[s]) <= 1
  /\ \A p \in Procs :
        /\ HoldsWrite(p) => /\ lock[SeatOf(p)] = {p}
                            /\ pending[p].id = SeatOf(p)
        /\ ~HoldsWrite(p) => Ended(p)

\* during transactionT1's hold the lock is its own, while a reservation and
\* transactionT2 both wait for the row
C9_Witness ==
  /\ pc[T1] = "sleep"
  /\ lock[SeatOf(T1)] = {T1}
  /\ pc[T2] = "waiting"
  /\ \E c \in Clients : pc[c] = "waiting" /\ SeatOf(c) = SeatOf(T1)

\* the lock-holding transactionT1 ends without committing in this step
T1RollsBack ==
  /\ result[T1] = 1
  /\ txState[T1] = "open"
  /\ txState'[T1] \notin {"open", "committed"}

\* C10: when transactionT1 ends without committing after its conditional
\* update, the seat row is as it was before the transaction started
\* (unclaimed, at the version of T1's snapshot), T1's write and lock are
\* gone, and a waiting transactionT2 whose snapshot still matches is no
\* longer blocked and its update matches the row; that update then affects
\* one row and the seat becomes T2's at the next version.
C10_CleanRollback ==
  /\ [][ T1RollsBack =>
           /\ seat' = seat
           /\ seat'[SeatOf(T1)] =
                [userId |-> Null, version |-> availableSeat[T1].version]
           /\ pending'[T1] = NoWrite
           /\ lock'[SeatOf(T1)] = {}
           /\ (pc[T2] = "waiting" /\ Behind(T2, T1)) =>
                 /\ lock'[SeatOf(T2)] \ {T2} = {}
                 /\ WhereMatches(seat'[SeatOf(T2)], availableSeat[T2]) ]_vars
  /\ [](( /\ Behind(T2, T1)
          /\ txState[T1] = "expired"
          /\ pc[T2] \in {"commit", "done"} )
        => /\ result[T2] = 1
           /\ seat[SeatOf(T2)] =
                [userId |-> UserTable[USER_EMAIL_T2],
                 version |-> availableSeat[T2].version + 1])

\* transactionT1 timed out during its hold while transactionT2 waited, and
\* the final read shows the seat claimed by transactionT2's user at version 1
C10_Witness ==
  /\ Behind(T2, T1)
  /\ outcome[T1] = "TimedOut"
  /\ result[T1] = 1
  /\ mainPc = "done"
  /\ finalSeat = [userId |-> UserTable[USER_EMAIL_T2], version |-> 1]

\* p's transaction timeout elapsed while its update was still waiting for
\* the row lock (transactionT2's timeout elapses nowhere else; transactionT1
\* received no count)
ExpiredBeforeGrant(p) ==
  /\ txState[p] = "expired"
  /\ p = T1 => result[p] = NoResult

\* C11: a lock-hold attempt whose transaction timeout elapsed before the row
\* lock was granted to it ends with TimedOut (not Claimed, ConflictAfterWait
\* or anything else) and has committed no write to the seat.
C11_TimeoutOutcome ==
  \A p \in LockHolders :
     (ExpiredBeforeGrant(p) /\ pc[p] = "done") =>
        /\ outcome[p] = "TimedOut"
        /\ PersistedBy(p) = {}

\* the same for transactionT1 alone, whose update is issued on tx
C11_ForT1 ==
  (ExpiredBeforeGrant(T1) /\ pc[T1] = "done") =>
     /\ outcome[T1] = "TimedOut"
     /\ PersistedBy(T1) = {}

\* the outcomes that belong to the protocol's normal operation
ExpectedOutcomes == {"Conflict", "ConflictAfterWait", "NoResourceAvailable",
                     "TimedOut"}

\* C12: in every claim entry point (claimSeat, reserveSeatOCC,
\* transactionT1, transactionT2) a conflict, an exhaustion or a timeout
\* reaches the caller as a completed result: the call does not end rejected,
\* and the program that awaits it does not end in its failure handler.
C12_OutcomesAreValues ==
  \A p \in Procs :
     outcome[p] \in ExpectedOutcomes =>
        /\ pc[p] # "rejected"
        /\ mainPc # "exit(1)"

\* C13: a claim attempt in which a store operation failed for an
\* infrastructure reason ends as a failure propagated to its caller (the call
\* rejects), with an outcome that is neither Conflict nor exhaustion.
C13_StoreErrorsPropagate ==
  \A c \in Clients :
     outcome[c] = "StoreError" => pc[c] = "rejected"

\* the same for the reads alone: a call whose findUnique or findFirst failed
\* is rejected, and a rejected call had a store error
C13_ReadErrorsPropagate ==
  \A c \in Clients :
     pc[c] = "rejected" => outcome[c] = "StoreError"

\* every user is deleted in this step
UsersDeleted == users # {} /\ users' = {}

\* C15: deleting the users deletes no seat and changes no version; every seat
\* a user held has a null owner afterwards and is among the rows the read
\* phase finds; and a conditional update of such a seat on its current
\* version, once executed, affects one row and writes the new owner at the
\* next version.
C15_OwnerDeletionNullifies ==
  [][ /\ UsersDeleted =>
           /\ seats' = seats
           /\ \A s \in seats :
                 /\ seat'[s] = [userId |-> Null, version |-> seat[s].version]
                 /\ s \in Available'
      /\ \A c \in Clients :
           ( /\ UpdateExecutes(c)
             /\ mainPc = "seeded"
             /\ seat[SeatOf(c)] =
                  [userId |-> Null, version |-> availableSeat[c].version] )
           => /\ result'[c] = 1
              /\ pending'[c] = [id |-> SeatOf(c), userId |-> user[c],
                                version |-> seat[SeatOf(c)].version + 1] ]_vars

\* a seat that was claimed at version 1 when its owner was deleted has been
\* claimed again, at version 2, by a user the seed created
C15_Witness ==
  /\ mainPc = "seeded"
  /\ \E r \in claims :
        /\ r.newVersion = 2
        /\ r.userId \in {SeedUserTable[e] : e \in SeedEmails}
        /\ seat[r.seat] = [userId |-> r.userId, version |-> 2]

\* the moves of one reserveSeatOCC call: each statement is passed once, in
\* order, and the call ends from the user lookup, the read phase or the
\* update's result
CallMoves ==
  { <<"idle", "findUnique">>, <<"findUnique", "findFirst">>,
    <<"findUnique", "idle">>, <<"findFirst", "updateMany">>,
    <<"findFirst", "idle">>, <<"updateMany", "waiting">>,
    <<"updateMany", "autocommit">>, <<"waiting", "autocommit">>,
    <<"autocommit", "idle">> }

C17_WaiterProgress ==
  /\ [][ \A p \in LockHolders :
            (pc[p] = "waiting" /\ UpdateExecutes(p)) =>
               /\ \A a \in waitedFor[p] : Ended(a)
               /\ result'[p] =
                    IF seat[SeatOf(p)].version = availableSeat[p].version
                      THEN 1 ELSE 0 ]_vars
  /\ \A p \in LockHolders : (pc[p] = "waiting") ~> (pc[p] = "done")
  /\ <>(mainPc = "done" /\ \A p \in LockHolders : pc[p] = "done")

\* transactionT2 waited behind transactionT1, received its count afterwards,
\* both finished and the final read was made
C17_Witness ==
  /\ Behind(T2, T1)
  /\ result[T2] # NoResult
  /\ pc[T1] = "done" /\ pc[T2] = "done"
  /\ mainPc = "done"
  /\ finalSeat.version = 1

\* the seats that have an owner
ClaimedSeats == {s \in seats : seat[s].userId # Null}

\* the smaller of two numbers
Min(a, b) == IF a < b THEN a ELSE b

\* C18: in a pool of NumSeats seats, whatever the interleaving of the
\* reserveSeatOCC calls made so far, the successes and the claimed seats
\* correspond one to one (every claimed seat has exactly one success and
\* every success its own seat), every success names the owner and version
\* the seat has in the store, every caller that reports a claim has one, and
\* there are at most min(NumSeats, calls) successes.
C18_SuccessesMatchStore ==
  /\ \A r \in claims :
        /\ r.proc \in Clients
        /\ seat[r.seat] = [userId |-> r.userId, version |-> r.newVersion]
  /\ \A s \in ClaimedSeats : Cardinality({r \in claims : r.seat = s}) = 1
  /\ Cardinality(claims) = Cardinality(ClaimedSeats)
  /\ \A c \in Clients :
        outcome[c] = "Claimed" => \E r \in claims : r.proc = c
  /\ Cardinality(claims) <= Min(NumSeats, calls)

\* every call has returned, every seat is claimed, by more than one caller,
\* after more calls than there are seats
C18_Witness ==
  /\ \A c \in Clients : pc[c] = "idle"
  /\ ClaimedSeats = SeatIds
  /\ \E r1, r2 \in claims : r1.proc # r2.proc
  /\ calls > NumSeats

\* C19: from seats created unclaimed at version 0 and changed only by
\* reserveSeatOCC, transactionT1 and transactionT2, every committed seat row
\* has version 0 or 1, and it has an owner exactly when its version is 1.
C19_VersionCountsClaims ==
  \A s \in seats :
     /\ seat[s].version \in {0, 1}
     /\ seat[s].userId # Null <=> seat[s].version = 1

\* the seat was claimed at version 1 by a reservation after transactionT1's
\* own claim of it was rolled back, and transactionT2 lost
C19_Witness ==
  /\ outcome[T1] = "TimedOut"
  /\ result[T1] = 1
  /\ outcome[T2] \in ConflictOutcomes
  /\ \E c \in SimClients : outcome[c] = "Claimed"
  /\ seat[1].version = 1

\* the user transactionT1 respectively transactionT2 claims for
UserOf(p) == IF p = T1 THEN UserTable[USER_EMAIL_T1]
                       ELSE UserTable[USER_EMAIL_T2]

\* what p last reported agrees with the store at the final read: success
\* exactly when the seat's final owner is p's user, and a failure only when
\* no write of p was committed
ReportAgrees(p) ==
  /\ outcome[p] = "Claimed" <=> finalSeat.userId = UserOf(p)
  /\ outcome[p] # "Claimed" => PersistedBy(p) = {}

\* C20: in validateLockAndVersionChange, however the two transactions
\* interleave and end, once the final read is made transactionT1 and
\* transactionT2 each have reported success exactly when the final owner of
\* seat 1 is their own user, and failure only when their own update left no
\* committed change.
C20_ReportAgreesWithStore ==
  mainPc = "done" => \A p \in LockHolders : ReportAgrees(p)

\* the same for transactionT1 alone, whose update is issued on tx
C20_ForT1 ==
  mainPc = "done" => ReportAgrees(T1)

\* the update of claimSeat call p is committed in this step
ClaimCommits(p) == pc[p] = "autocommit" /\ pc'[p] = "done"

\* C21: the write of claimSeat is conditioned on the seat id only and keeps
\* the version: when it commits, the seat of the call's snapshot gets the
\* call's user as owner at its unchanged version, whoever owned it, and the
\* call reports a claim. So two calls that read the same unclaimed seat both
\* end reporting a claim, the seat's owner being the one whose write was
\* committed last. A call reads the seat another call claimed only if that
\* call's write was not yet committed: a call whose read comes after the
\* other has ended sees the seat as taken.
C21_LostUpdate ==
  /\ [][ \A p \in MainCalls :
            /\ ClaimCommits(p) =>
                  /\ seat'[SeatOf(p)] = [userId |-> user[p],
                                         version |-> seat[SeatOf(p)].version]
                  /\ outcome'[p] = "Claimed"
            /\ \A q \in MainCalls \ {p} :
                  (ReadPhase(q) /\ pc[p] = "done") =>
                     availableSeat'[q].id # SeatOf(p) ]_vars
  /\ [](\A p \in MainCalls :
           /\ pc[p] = "done" => outcome[p] = "Claimed"
           /\ \A q \in MainCalls \ {p} :
                 ( /\ pc[p] = "done" /\ pc[q] = "done"
                   /\ SeatOf(p) = SeatOf(q) )
                 => /\ PersistedBy(p) # {} /\ PersistedBy(q) # {}
                    /\ seat[SeatOf(p)].userId \in {user[p], user[q]})

\* both calls read the same unclaimed seat, both reported a claim of it, and
\* the seat belongs to user 2 at its old version: user 1's claim is lost
C21_Witness ==
  /\ \A p \in MainCalls : pc[p] = "done" /\ outcome[p] = "Claimed"
  /\ SeatOf(NumClients + 3) = SeatOf(NumClients + 4)
  /\ Cardinality({r \in claims : r.seat = SeatOf(NumClients + 3)}) = 2
  /\ seat[SeatOf(NumClients + 3)] = [userId |-> 2, version |-> 0]
====
